---- MODULE Spec2Model ----
(***************************************************************************)
(* FluxEngine, phase 1: the admission / dispatch pipeline.                 *)
(*                                                                         *)
(*   main            (cmd: make(chan *Job), go worker.Start(), signal,     *)
(*                    close(jobQueue), Sleep(2s), return)                  *)
(*   HandleSubmitJob (one goroutine per HTTP request)                      *)
(*   Worker.Start    (for job := range jobQueue { processJob(job) })       *)
(*                                                                         *)
(* The unbuffered channel is modelled by what the Go runtime does: a       *)
(* non-blocking send (select with default) succeeds only when a receiver   *)
(* is already parked on the channel, and a send on a closed channel        *)
(* panics.  A panic in a request goroutine is recovered by net/http (the   *)
(* connection is dropped, no status is written); a panic in the worker     *)
(* goroutine is not recovered by anyone and ends the process.              *)
(***************************************************************************)
EXTENDS Integers, Sequences, FiniteSets, TLC

(* Number of HTTP requests a behaviour may contain. *)
MaxReqs == 3

Reqs == 1..MaxReqs

(***************************************************************************)
(* JSON values as Go sees them inside map[string]interface{}.              *)
(* kind "float"  : a JSON number (float64); n holds the value in tenths,   *)
(*                 so 39 is 3.9 and -10 is -1.0                            *)
(* kind "int"    : a Go int stored by the program itself; n is the value   *)
(* kind "string" : s is the text                                           *)
(* kind "absent" : the key is not in the map                               *)
(***************************************************************************)
Absent == [kind |-> "absent", s |-> "", n |-> 0]
Str(t) == [kind |-> "string", s |-> t, n |-> 0]
Float(whole, tenth) == [kind |-> "float", s |-> "", n |-> 10 * whole + tenth]
GoInt(i) == [kind |-> "int", s |-> "", n |-> i]

(* A JSON number of magnitude 2^63 or more, such as 1e19; n is its sign. *)
HugeFloat(sign) == [kind |-> "float", s |-> "huge", n |-> sign]

(***************************************************************************)
(* A Go int (64 bits) as far as the program looks at it: sat is "no" and   *)
(* n the value, or sat is "min" / "max" for math.MinInt64 / math.MaxInt64. *)
(***************************************************************************)
IntValue(i) == [sat |-> "no", n |-> i]
MinInt64 == [sat |-> "min", n |-> 0]
MaxInt64 == [sat |-> "max", n |-> 0]

IntLess(x, c) == x.sat = "min" \/ (x.sat = "no" /\ x.n < c)
IntGreater(x, c) == x.sat = "max" \/ (x.sat = "no" /\ x.n > c)

(***************************************************************************)
(* int(f) for a float64 f: truncation toward zero.  For a value that does  *)
(* not fit the int the language leaves the result to the implementation;   *)
(* conv is what the build does with a value above the range: "wrap"        *)
(* (amd64: MinInt64) or "saturate" (arm64: MaxInt64).  Below the range     *)
(* both give MinInt64.                                                     *)
(***************************************************************************)
Conversions == {"wrap", "saturate"}

IntOfFloat(v, conv) ==
  IF v.s = "huge"
    THEN IF v.n < 0 \/ conv = "wrap" THEN MinInt64 ELSE MaxInt64
    ELSE IntValue(IF v.n >= 0 THEN v.n \div 10 ELSE -((-v.n) \div 10))

Keys == {"password", "cost", "data_points"}

(* A payload is a Go map; nil is TRUE for the nil map (payload omitted or  *)
(* JSON null), which reads as empty and panics on assignment.              *)
(* m holds the entries that are there; Absent as an argument of MakeMap    *)
(* leaves the key out, and a lookup of a key that is not there gives       *)
(* Absent.                                                                 *)
MakeMap(pw, cost, dp) ==
  LET all == [k \in Keys |-> CASE k = "password" -> pw
                              [] k = "cost" -> cost
                              [] OTHER -> dp]
  IN [nil |-> FALSE,
      m |-> [k \in {x \in Keys : all[x] /= Absent} |-> all[k]]]
NilMap == [nil |-> TRUE, m |-> [k \in {} |-> Absent]]

Has(p, k) == k \in DOMAIN p.m

Lookup(p, k) == IF Has(p, k) THEN p.m[k] ELSE Absent

(***************************************************************************)
(* generateJobID and randString.  Every time.Now() is a reading of the     *)
(* wall clock, here in nanoseconds since the start of the run; the         *)
(* timestamp part of an identifier is the reading cut to whole seconds.    *)
(***************************************************************************)
NanosPerSecond == 1000000000
SuffixLen == 6

Letters ==
  <<"a", "b", "c", "d", "e", "f", "g", "h", "i", "j", "k", "l", "m",
    "n", "o", "p", "q", "r", "s", "t", "u", "v", "w", "x", "y", "z",
    "0", "1", "2", "3", "4", "5", "6", "7", "8", "9">>

(* readings[i + 1] is what time.Now().UnixNano() returned for b[i]. *)
randString(n, readings) ==
  [k \in 1..n |-> Letters[((readings[k] + (k - 1)) % Len(Letters)) + 1]]

generateJobID(stamp, readings) ==
  [ts |-> stamp \div NanosPerSecond, suffix |-> randString(SuffixLen, readings)]

(* The clock readings of one models.NewJob: generateJobID takes the        *)
(* timestamp and one reading per character, then CreatedAt takes one       *)
(* more.  The clock has moved on by gap since it was last read and moves   *)
(* by tick between one reading and the next.                               *)
Readings(now, gap, tick) ==
  [stamp |-> now + gap,
   chars |-> [k \in 1..SuffixLen |-> now + gap + k * tick],
   createdAt |-> now + gap + (SuffixLen + 1) * tick]

(***************************************************************************)
(* models.Job and NewJob; now holds the clock readings NewJob takes.       *)
(***************************************************************************)
NoID == [ts |-> 0, suffix |-> <<>>]

NoJob ==
  [ID |-> NoID, Type |-> "none", Payload |-> NilMap, CreatedAt |-> 0,
   Status |-> "none"]

NewJob(jobType, payload, now) ==
  [ID |-> generateJobID(now.stamp, now.chars),
   Type |-> jobType,
   Payload |-> payload,
   CreatedAt |-> now.createdAt,
   Status |-> "pending"]

(***************************************************************************)
(* HandleSubmitJob up to and including NewJob: everything before the       *)
(* select touches only the request's own data.                             *)
(* A request is [method, readable, wellformed, type, payload]; readable is *)
(* the outcome of io.ReadAll, wellformed that of json.Unmarshal into       *)
(* SubmitJobRequest; now holds the clock readings NewJob takes if the      *)
(* request gets that far.                                                  *)
(* The result is one of                                                    *)
(*   [out |-> "response", code |-> 405 or 400]                             *)
(*   [out |-> "panic"]      assignment to an entry of the nil map          *)
(*   [out |-> "job", job |-> the constructed job]                          *)
(***************************************************************************)
DefaultDataPointsHandler == 1000000

Reply(c) == [out |-> "response", code |-> c, job |-> NoJob]
Panics == [out |-> "panic", code |-> 0, job |-> NoJob]
Built(j) == [out |-> "job", code |-> 0, job |-> j]

SetDataPoints(p, v) ==
  [p EXCEPT !.m = [k \in DOMAIN p.m \cup {"data_points"} |->
                     IF k = "data_points" THEN v ELSE p.m[k]]]

Admit(req, now) ==
  IF req.method /= "POST" THEN Reply(405)
  ELSE IF ~req.readable THEN Reply(400)
  ELSE IF ~req.wellformed THEN Reply(400)
  ELSE IF req.type /= "password_hash" /\ req.type /= "report_generation"
    THEN Reply(400)
  ELSE IF req.type = "password_hash"
    THEN IF ~Has(req.payload, "password")
           THEN Reply(400)
           ELSE Built(NewJob(req.type, req.payload, now))
  ELSE IF ~Has(req.payload, "data_points")
    THEN IF req.payload.nil
           THEN Panics
           ELSE Built(NewJob(req.type,
                   SetDataPoints(req.payload, GoInt(DefaultDataPointsHandler)),
                   now))
  ELSE Built(NewJob(req.type, req.payload, now))

(***************************************************************************)
(* The task executors.  An executor returns                                *)
(*   [panic, err, cost, count, marker]                                     *)
(* panic  : the goroutine panicked inside the executor                     *)
(* err    : "" for a nil error, else the error text                        *)
(* cost   : the bcrypt cost used (0 when no hashing was done)              *)
(* count  : the number of values generated (0 when none)                   *)
(* marker : the statistics map is {"error": "empty dataset"}               *)
(***************************************************************************)
DefaultCost == 10
MinCost == 4
MaxCost == 31
DefaultDataPoints == 1000000
MaxDataPoints == 10000000

Outcome(p, e, c, n, mk) ==
  [panic |-> p, err |-> e, cost |-> c, count |-> n, marker |-> mk]
NoOutcome == Outcome(FALSE, "", 0, 0, FALSE)

EffectiveCost(payload, conv) ==
  IF Lookup(payload, "cost").kind = "float"
    THEN LET cost == IntOfFloat(Lookup(payload, "cost"), conv)
         IN IF IntLess(cost, MinCost) \/ IntGreater(cost, MaxCost)
              THEN DefaultCost
              ELSE cost.n
    ELSE DefaultCost

(* bcrypt is a library: lib is what it did, "ok", "hash_error"             *)
(* (GenerateFromPassword returned an error) or "verify_error"              *)
(* (CompareHashAndPassword returned an error).                             *)
processPasswordHash(job, lib, conv) ==
  IF Lookup(job.Payload, "password").kind /= "string"
    THEN Outcome(FALSE, "invalid password field", 0, 0, FALSE)
  ELSE IF lib = "hash_error"
    THEN Outcome(FALSE, "bcrypt hashing failed",
                 EffectiveCost(job.Payload, conv), 0, FALSE)
  ELSE IF lib = "verify_error"
    THEN Outcome(FALSE, "hash verification failed",
                 EffectiveCost(job.Payload, conv), 0, FALSE)
  ELSE Outcome(FALSE, "", EffectiveCost(job.Payload, conv), 0, FALSE)

(* dataPoints after the default, the conversion and the upper limit. *)
EffectiveDataPoints(payload, conv) ==
  LET dataPoints == IF Lookup(payload, "data_points").kind = "float"
                      THEN IntOfFloat(Lookup(payload, "data_points"), conv)
                      ELSE IntValue(DefaultDataPoints)
  IN IF IntGreater(dataPoints, MaxDataPoints)
       THEN IntValue(MaxDataPoints)
       ELSE dataPoints

(* computeStatistics as far as the pipeline sees it: the dataset is        *)
(* random, only its length decides which map comes back.                   *)
StatsIsEmptyMarker(n) == n = 0

(* make([]float64, dataPoints) panics for a negative length. *)
processReportGeneration(job, conv) ==
  LET dataPoints == EffectiveDataPoints(job.Payload, conv)
  IN IF IntLess(dataPoints, 0)
       THEN Outcome(TRUE, "", 0, 0, FALSE)
       ELSE Outcome(FALSE, "", 0, dataPoints.n, StatsIsEmptyMarker(dataPoints.n))

(* The switch of processJob. *)
Execute(job, lib, conv) ==
  CASE job.Type = "password_hash" -> processPasswordHash(job, lib, conv)
    [] job.Type = "report_generation" -> processReportGeneration(job, conv)
    [] OTHER -> Outcome(FALSE, "unknown job type", 0, 0, FALSE)

(* A failed job put back to "pending" for a retry. *)
TerminalStatusRetry(outcome) == IF outcome.err /= "" THEN "pending" ELSE "completed"

(* The status processJob stores once the executor has returned. *)
TerminalStatus(outcome) == IF outcome.err /= "" THEN "failed" ELSE "completed"

(***************************************************************************)
(* computeStatistics.  The values are float64 holding whole numbers (the   *)
(* generator stores float64 of an integer below 1000); a quotient is kept  *)
(* exactly as [num, den], the square root as [sqrt |-> radicand].  Go      *)
(* slices count from 0, sequences from 1: sortedData[k] is s[k + 1].       *)
(***************************************************************************)
Rat(a, b) == [num |-> a, den |-> b]

RECURSIVE SumOf(_)
SumOf(s) == IF s = <<>> THEN 0 ELSE Head(s) + SumOf(Tail(s))

RECURSIVE SumOfSquares(_)
SumOfSquares(s) == IF s = <<>> THEN 0 ELSE Head(s) * Head(s) + SumOfSquares(Tail(s))

RECURSIVE MinOf(_, _)
MinOf(s, m) ==
  IF s = <<>> THEN m ELSE MinOf(Tail(s), IF Head(s) < m THEN Head(s) ELSE m)

RECURSIVE MaxOf(_, _)
MaxOf(s, m) ==
  IF s = <<>> THEN m ELSE MaxOf(Tail(s), IF Head(s) > m THEN Head(s) ELSE m)

(* sort.Float64s: ascending order.  The element of s at position i goes   *)
(* to the place given by the number of elements that come before it.      *)
SortFloat64s(s) ==
  LET before(i) ==
        Cardinality({j \in DOMAIN s : s[j] < s[i] \/ (s[j] = s[i] /\ j < i)})
  IN [k \in DOMAIN s |-> s[CHOOSE i \in DOMAIN s : before(i) = k - 1]]

(* The copy made without the sort that should follow it. *)
UnsortedCopy(data) == data

(* make, copy, sort.Float64s: the sorted values live in a new slice. *)
SortedCopy(data) == SortFloat64s(data)

(* The map for an empty dataset, had it also carried a count. *)
EmptyResultWithCount == [error |-> "empty dataset", count |-> 0]

EmptyResult == [error |-> "empty dataset"]

(* The result is [data, result]: the caller's slice as the call leaves it  *)
(* and the map returned.  The variance is sum((v - mean)^2) / n, which is  *)
(* (n * sum(v^2) - sum(v)^2) / n^2.                                        *)
computeStatistics(data) ==
  LET n == Len(data)
  IN IF n = 0
       THEN [data |-> data, result |-> EmptyResult]
       ELSE
         LET sum == SumOf(data)
             variance == Rat(n * SumOfSquares(data) - sum * sum, n * n)
             min == MinOf(data, data[1])
             max == MaxOf(data, data[1])
             sortedData == SortedCopy(data)
             median == IF n % 2 = 0
                         THEN Rat(sortedData[n \div 2] + sortedData[n \div 2 + 1], 2)
                         ELSE Rat(sortedData[n \div 2 + 1], 1)
         IN [data |-> data,
             result |->
               [count |-> n,
                sum |-> sum,
                mean |-> Rat(sum, n),
                std_dev |-> [sqrt |-> variance],
                variance |-> variance,
                min |-> min,
                max |-> max,
                median |-> median,
                p25 |-> sortedData[n \div 4 + 1],
                p75 |-> sortedData[(3 * n) \div 4 + 1],
                p95 |-> sortedData[(95 * n) \div 100 + 1],
                p99 |-> sortedData[(99 * n) \div 100 + 1],
                range |-> max - min]]

(***************************************************************************)
(* The dataset processReportGeneration fills: n values, each float64 of a  *)
(* whole number below 1000.  Datasets of up to MaxLen values are listed    *)
(* with values taken from DataValues; a longer one is kept as its length   *)
(* alone, and of its statistics only the count is known.                   *)
(***************************************************************************)
MaxLen == 4
DataValues == {0, 7, 999}

Unlisted(n) == [len |-> n]

SummaryStats(n) ==
  [count |-> n, sum |-> "unlisted", mean |-> "unlisted",
   std_dev |-> "unlisted", variance |-> "unlisted", min |-> "unlisted",
   max |-> "unlisted", median |-> "unlisted", p25 |-> "unlisted",
   p75 |-> "unlisted", p95 |-> "unlisted", p99 |-> "unlisted",
   range |-> "unlisted"]

(***************************************************************************)
(* The requests the environment may send.                                  *)
(***************************************************************************)
EmptyMap == MakeMap(Absent, Absent, Absent)

Request(meth, rd, wf, ty, pl) ==
  [method |-> meth, readable |-> rd, wellformed |-> wf, type |-> ty, payload |-> pl]

Post(ty, pl) == Request("POST", TRUE, TRUE, ty, pl)

Requests ==
  { Request("GET", TRUE, TRUE, "password_hash", NilMap),
    Request("POST", FALSE, TRUE, "password_hash", NilMap),
    Request("POST", TRUE, FALSE, "password_hash", NilMap),
    Post("bogus", NilMap),
    Post("password_hash", NilMap),
    Post("password_hash", EmptyMap),
    Post("password_hash", MakeMap(Str("abc123"), Absent, Absent)),
    Post("password_hash", MakeMap(Float(123, 0), Absent, Absent)),
    Post("report_generation", NilMap),
    Post("report_generation", EmptyMap),
    Post("report_generation", MakeMap(Absent, Absent, Float(0, 0))),
    Post("report_generation", MakeMap(Absent, Absent, Float(-1, 0))) }

BcryptResults == {"ok", "hash_error", "verify_error"}

(***************************************************************************)
(* State.                                                                  *)
(*  mainPc : "serving" (blocked on <-quit), "grace" (queue closed, in the  *)
(*           2 s sleep), "exited" (main returned), "crashed" (a panic      *)
(*           nobody recovered ended the process)                           *)
(*  closed : close(jobQueue) has been executed                             *)
(*  wpc    : the worker: "loop" (about to receive), "recv" (parked in the  *)
(*           receive), "got" (processJob entered), "exec" (Status is       *)
(*           "processing", executor running), "ret" (executor returned),   *)
(*           "log" (terminal Status stored, logging), "stopped" (range     *)
(*           ended), "panicked"                                            *)
(*  wjob   : the job the worker has in hand (0: none)                      *)
(*  wout   : result and err of processJob                                  *)
(*  hpc    : each request: "new" (not sent yet), "send" (job built, at     *)
(*           the select), "accepted" (send case taken, 202 not yet         *)
(*           written), "rejected" (default case taken, 503 not yet         *)
(*           written), "done" (returned), "panic_nilmap" and               *)
(*           "panic_closed" (the goroutine panicked: assignment to entry   *)
(*           in nil map, send on closed channel; nothing was written)      *)
(*  resp   : the status code the client got (0: none)                      *)
(*  jobs   : the job each request constructed, while anything still        *)
(*           refers to it (NoJob before and after)                         *)
(*  seen   : what the worker was doing when the request's select ran,      *)
(*           kept until the request responds: "parked" (a receiver         *)
(*           waiting), "busy" (the worker mid-job), "away" (the worker     *)
(*           neither mid-job nor parked); "none" before the select and     *)
(*           after the response                                            *)
(***************************************************************************)
MidJob == {"got", "exec", "ret", "log"}

VARIABLES mainPc, closed, wpc, wjob, wout, hpc, resp, jobs, seen

(***************************************************************************)
(* State the control flow of the pipeline does not depend on.              *)
(*  clock   : the wall clock as models.NewJob last read it, in nanoseconds *)
(*  dataset : the dataset of the report executor now running (<<>> when    *)
(*            there is none)                                               *)
(*  stats   : the map computeStatistics returned to it (NoStats before     *)
(*            the call and once processJob has returned)                   *)
(***************************************************************************)
VARIABLES clock, dataset, stats

pipeline == <<mainPc, closed, wpc, wjob, wout, hpc, resp, jobs, seen>>

aside == <<clock, dataset, stats>>

vars == <<mainPc, closed, wpc, wjob, wout, hpc, resp, jobs, seen,
          clock, dataset, stats>>

NoStats == [none |-> TRUE]

Init ==
  /\ mainPc = "serving"
  /\ closed = FALSE
  /\ wpc = "loop"
  /\ wjob = 0
  /\ wout = NoOutcome
  /\ hpc = [h \in Reqs |-> "new"]
  /\ resp = [h \in Reqs |-> 0]
  /\ jobs = [h \in Reqs |-> NoJob]
  /\ seen = [h \in Reqs |-> "none"]
  /\ clock = 0
  /\ dataset = <<>>
  /\ stats = NoStats

(* The process is running: the HTTP server serves and goroutines run. *)
Alive == mainPc \in {"serving", "grace"}

(***************************************************************************)
(* HandleSubmitJob, first part: method check, body, JSON, validation,      *)
(* NewJob.  Requests are numbered in the order they arrive.  A request     *)
(* that gets as far as NewJob is given an identifier, made from the clock  *)
(* readings that gap and tick decide.                                      *)
(***************************************************************************)
HandleSubmitJob(h, req, gap, tick) ==
  /\ Alive
  /\ hpc[h] = "new"
  /\ IF h = 1 THEN TRUE ELSE hpc[h - 1] /= "new"
  /\ LET now == Readings(clock, gap, tick)
         a == Admit(req, now)
     IN /\ hpc' = [hpc EXCEPT ![h] = CASE a.out = "job" -> "send"
                                       [] a.out = "panic" -> "panic_nilmap"
                                       [] OTHER -> "done"]
        /\ resp' = [resp EXCEPT ![h] = a.code]
        /\ jobs' = [jobs EXCEPT ![h] = a.job]
        /\ clock' = IF a.out = "job" THEN now.createdAt ELSE clock
  /\ UNCHANGED <<mainPc, closed, wpc, wjob, wout, seen>>
  /\ UNCHANGED <<dataset, stats>>

(***************************************************************************)
(* HandleSubmitJob, the select: case h.jobQueue <- job / default.          *)
(*   closed channel            -> panic: send on closed channel            *)
(*   a receiver is parked      -> the job is handed to it                  *)
(*   otherwise                 -> default; the handler never touches the   *)
(*                                job again and nothing else refers to it  *)
(***************************************************************************)
WorkerSeen ==
  CASE wpc = "recv" -> "parked"
    [] wpc \in MidJob -> "busy"
    [] OTHER -> "away"

(* A channel with a buffer: a send also completes while the worker is       *)
(* mid-job.                                                                *)
ReceiverReadyBuffered == wpc = "recv" \/ wpc \in MidJob

(* The channel has no buffer: a send completes only into a parked receiver. *)
ReceiverReady == wpc = "recv"

TrySend(h) ==
  /\ Alive
  /\ hpc[h] = "send"
  /\ IF closed
       THEN /\ hpc' = [hpc EXCEPT ![h] = "panic_closed"]
            /\ seen' = [seen EXCEPT ![h] = WorkerSeen]
            /\ jobs' = [jobs EXCEPT ![h] = NoJob]
            /\ UNCHANGED <<wpc, wjob>>
       ELSE IF ReceiverReady
         THEN /\ hpc' = [hpc EXCEPT ![h] = "accepted"]
              /\ seen' = [seen EXCEPT ![h] = WorkerSeen]
              /\ wpc' = "got"
              /\ wjob' = h
              /\ UNCHANGED jobs
         ELSE /\ hpc' = [hpc EXCEPT ![h] = "rejected"]
              /\ seen' = [seen EXCEPT ![h] = WorkerSeen]
              /\ jobs' = [jobs EXCEPT ![h] = NoJob]
              /\ UNCHANGED <<wpc, wjob>>
  /\ UNCHANGED <<mainPc, closed, wout, resp>>
  /\ UNCHANGED aside

(***************************************************************************)
(* HandleSubmitJob, after the select: the send case logs job.ID and        *)
(* job.Type and writes 202, the default case writes 503.  On return the    *)
(* handler's reference to the job is gone; the job lives on only while     *)
(* the worker holds it.                                                    *)
(***************************************************************************)
Respond(h) ==
  /\ Alive
  /\ hpc[h] \in {"accepted", "rejected"}
  /\ hpc' = [hpc EXCEPT ![h] = "done"]
  /\ resp' = [resp EXCEPT ![h] = IF hpc[h] = "accepted" THEN 202 ELSE 503]
  /\ seen' = [seen EXCEPT ![h] = "none"]
  /\ jobs' = IF wjob = h THEN jobs ELSE [jobs EXCEPT ![h] = NoJob]
  /\ UNCHANGED <<mainPc, closed, wpc, wjob, wout>>
  /\ UNCHANGED aside

(***************************************************************************)
(* Worker.Start: for job := range w.jobQueue                               *)
(***************************************************************************)
WorkerReceive ==
  /\ Alive
  /\ wpc = "loop"
  /\ ~closed
  /\ wpc' = "recv"
  /\ UNCHANGED <<mainPc, closed, wjob, wout, hpc, resp, jobs, seen>>
  /\ UNCHANGED aside

WorkerStop ==
  /\ Alive
  /\ wpc \in {"loop", "recv"}
  /\ closed
  /\ wpc' = "stopped"
  /\ UNCHANGED <<mainPc, closed, wjob, wout, hpc, resp, jobs, seen>>
  /\ UNCHANGED aside

(***************************************************************************)
(* Worker.processJob                                                       *)
(***************************************************************************)
SetStatus(js, j, st) == [js EXCEPT ![j].Status = st]

(* processJob started as its own goroutine: the loop goes straight back   *)
(* to the receive.                                                         *)
ProcessJobBeginAsync ==
  /\ Alive
  /\ wpc = "got"
  /\ jobs' = SetStatus(jobs, wjob, "processing")
  /\ wpc' = "recv"
  /\ UNCHANGED <<mainPc, closed, wjob, wout, hpc, resp, seen>>
  /\ UNCHANGED aside

ProcessJobBegin ==
  /\ Alive
  /\ wpc = "got"
  /\ jobs' = SetStatus(jobs, wjob, "processing")
  /\ wpc' = "exec"
  /\ UNCHANGED <<mainPc, closed, wjob, wout, hpc, resp, seen>>
  /\ UNCHANGED aside

(* An unrecovered panic in the worker goroutine ends the process. *)
(* What the executor of a job may come back with, over everything the     *)
(* library and the build's conversion can do.                              *)
Outcomes(job) ==
  {Execute(job, lib, conv) : lib \in BcryptResults, conv \in Conversions}

(* The report executor fills the dataset and calls computeStatistics on    *)
(* it once make has not panicked.                                          *)
ProcessJobExecute ==
  /\ Alive
  /\ wpc = "exec"
  /\ wout' \in Outcomes(jobs[wjob])
  /\ IF wout'.panic
       THEN wpc' = "panicked" /\ mainPc' = "crashed"
       ELSE wpc' = "ret" /\ UNCHANGED mainPc
  /\ IF jobs[wjob].Type = "report_generation" /\ ~wout'.panic
       THEN IF wout'.count <= MaxLen
              THEN \E data \in [1..wout'.count -> DataValues] :
                      /\ dataset' = computeStatistics(data).data
                      /\ stats' = computeStatistics(data).result
              ELSE /\ dataset' = Unlisted(wout'.count)
                   /\ stats' = SummaryStats(wout'.count)
       ELSE UNCHANGED <<dataset, stats>>
  /\ UNCHANGED <<closed, wjob, hpc, resp, jobs, seen>>
  /\ UNCHANGED clock

ProcessJobEnd ==
  /\ Alive
  /\ wpc = "ret"
  /\ jobs' = SetStatus(jobs, wjob, TerminalStatus(wout))
  /\ wpc' = "log"
  /\ UNCHANGED <<mainPc, closed, wjob, wout, hpc, resp, seen>>
  /\ UNCHANGED aside

(* processJob returns to the loop; its result and the executor's dataset   *)
(* are gone, and the job is dropped once the handler that built it has     *)
(* returned too.                                                           *)
ProcessJobReturn ==
  /\ Alive
  /\ wpc = "log"
  /\ wpc' = "loop"
  /\ wjob' = 0
  /\ wout' = NoOutcome
  /\ jobs' = IF hpc[wjob] = "accepted" THEN jobs ELSE [jobs EXCEPT ![wjob] = NoJob]
  /\ dataset' = <<>>
  /\ stats' = NoStats
  /\ UNCHANGED <<mainPc, closed, hpc, resp, seen>>
  /\ UNCHANGED clock

(***************************************************************************)
(* main: <-quit; close(jobQueue); time.Sleep(2s); return                   *)
(***************************************************************************)
Shutdown ==
  /\ mainPc = "serving"
  /\ closed' = TRUE
  /\ mainPc' = "grace"
  /\ UNCHANGED <<wpc, wjob, wout, hpc, resp, jobs, seen>>
  /\ UNCHANGED aside

(* The sleep is over and main returns, whatever the goroutines are doing. *)
Exit ==
  /\ mainPc = "grace"
  /\ mainPc' = "exited"
  /\ UNCHANGED <<closed, wpc, wjob, wout, hpc, resp, jobs, seen>>
  /\ UNCHANGED aside

(* In the pipeline the clock is steady: it moves by one nanosecond from    *)
(* each reading to the next.                                               *)
Steady == {1}

Next ==
  \/ \E h \in Reqs, req \in Requests, gap \in Steady, tick \in Steady :
        HandleSubmitJob(h, req, gap, tick)
  \/ \E h \in Reqs : TrySend(h)
  \/ \E h \in Reqs : Respond(h)
  \/ WorkerReceive
  \/ WorkerStop
  \/ ProcessJobBegin
  \/ ProcessJobExecute
  \/ ProcessJobEnd
  \/ ProcessJobReturn
  \/ Shutdown
  \/ Exit

Spec == Init /\ [][Next]_vars

(***************************************************************************)
(* Properties.                                                             *)
(***************************************************************************)
Terminal == {"completed", "failed"}

(* The request took the send case of its select. *)
Received(h) == hpc[h] = "accepted" \/ resp[h] = 202

(* C1: a hand-off attempted while the worker is mid-job ends in the        *)
(* default case (Overloaded / 503), and a hand-off succeeds only into a    *)
(* worker parked in its receive.                                           *)
C1_BusyWorkerRejects ==
  [][\A h \in Reqs :
       (hpc[h] = "send" /\ hpc'[h] /= "send")
         => /\ wpc \in MidJob => hpc'[h] = "rejected"
            /\ hpc'[h] = "accepted" => wpc = "recv"]_vars

(* C2: no job ends the worker loop: the worker never panics, and it stops  *)
(* only once the queue is closed.                                          *)
C2_NoJobEndsWorker ==
  /\ wpc /= "panicked"
  /\ wpc = "stopped" => closed

(* C3: every password_hash job that admission constructs carries a string  *)
(* password, so none with a non-string password reaches the worker.        *)
C3_PasswordIsString ==
  \A h \in Reqs :
    jobs[h].Type = "password_hash" => Lookup(jobs[h].Payload, "password").kind = "string"

(* C4: a report_generation request without data_points never crashes the   *)
(* request flow: it gets the default and goes on to the hand-off.          *)
C4_MissingDataPointsProceeds ==
  \A h \in Reqs :
    /\ hpc[h] /= "panic_nilmap"
    /\ jobs[h].Type = "report_generation" => Has(jobs[h].Payload, "data_points")

(* What the executor reported as an internal failure: an error, or the     *)
(* statistics engine's empty-dataset marker.                               *)
HitFailure(o) == o.err /= "" \/ o.marker

(* C5: the terminal status is "failed" exactly when the execution hit an   *)
(* internal failure, the empty-dataset marker included, and "completed"    *)
(* otherwise.                                                              *)
C5_FailedIffFailure ==
  wpc = "log" =>
    /\ jobs[wjob].Status \in Terminal
    /\ jobs[wjob].Status = "failed" <=> HitFailure(wout)

(* C6: when the process has exited, no accepted job is left short of a     *)
(* terminal status.                                                        *)
C6_NoJobLostAtExit ==
  mainPc = "exited" => (wjob = 0 \/ jobs[wjob].Status \in Terminal)

(* C7: a submit flow never waits: while it runs, its next step is enabled  *)
(* whatever the worker is doing, and it ends in one of the responses 202,  *)
(* 400, 405, 503.                                                          *)
C7_SubmitNeverWaits ==
  \A h \in Reqs :
    /\ hpc[h] \notin {"panic_nilmap", "panic_closed"}
    /\ hpc[h] = "done" => resp[h] \in {202, 400, 405, 503}
    /\ (Alive /\ hpc[h] = "send") => ENABLED TrySend(h)
    /\ (Alive /\ hpc[h] \in {"accepted", "rejected"}) => ENABLED Respond(h)

(* Two requests are both past their select and neither has responded, and  *)
(* each made its hand-off attempt while the worker was mid-job, with the   *)
(* queue open or closed.                                                   *)
BothTriedWhileBusy(g, h) == g /= h /\ seen[g] = "busy" /\ seen[h] = "busy"

(* C8, as claimed: of two concurrent submissions made while the worker is  *)
(* busy, exactly one is accepted (202) and the other rejected (503).       *)
C8_ExactlyOneAccepted ==
  \A g, h \in Reqs :
    BothTriedWhileBusy(g, h) =>
      \/ hpc[g] = "accepted" /\ hpc[h] = "rejected"
      \/ hpc[g] = "rejected" /\ hpc[h] = "accepted"

(* The submission has not been accepted: it took the default case or       *)
(* panicked on the closed queue, the worker does not hold its job, and     *)
(* nothing has been written for it.                                        *)
NotAccepted(h) ==
  /\ hpc[h] \in {"rejected", "panic_closed"}
  /\ ~Received(h)
  /\ resp[h] = 0
  /\ wjob /= h

(* C8, amended: of two concurrent submissions made while the worker is     *)
(* busy, neither receives 202.  A select that runs while the worker is     *)
(* mid-job takes the default case if the queue is open and panics on the   *)
(* send if the queue has been closed; the only step a submission takes     *)
(* after that is the 503 of the default case, and the one that panicked    *)
(* writes no response.                                                     *)
C8_NeitherAccepted ==
  [][/\ \A g, h \in Reqs :
          BothTriedWhileBusy(g, h)' => NotAccepted(g)' /\ NotAccepted(h)'
     /\ \A h \in Reqs :
          /\ (hpc[h] = "send" /\ seen'[h] = "busy") =>
               hpc'[h] = IF closed THEN "panic_closed" ELSE "rejected"
          /\ (seen[h] = "busy" /\ hpc'[h] /= hpc[h]) =>
               /\ hpc[h] = "rejected"
               /\ hpc'[h] = "done"
               /\ resp'[h] = 503]_vars

(* Both cases at once: one submission took the default case before the     *)
(* queue was closed, the other panicked on the send after it, and the      *)
(* worker was mid-job both times.                                          *)
C8_Witness ==
  \E g, h \in Reqs :
    /\ BothTriedWhileBusy(g, h)
    /\ hpc[g] = "rejected"
    /\ hpc[h] = "panic_closed"

(* The jobs the worker has received that have no terminal status yet. *)
InFlight == {h \in Reqs : Received(h) /\ jobs[h].Status \in {"pending", "processing"}}

(* C9: at most one job is in flight: at most one received job is short of  *)
(* a terminal status, and at most one job has status "processing".         *)
C9_OneJobInFlight ==
  /\ Cardinality(InFlight) <= 1
  /\ Cardinality({h \in Reqs : jobs[h].Status = "processing"}) <= 1

C9_Witness ==
  /\ wpc = "exec"
  /\ jobs[wjob].Status = "processing"
  /\ \E h \in Reqs : h /= wjob /\ seen[h] = "busy"

(* The status changes a job may go through; "none" is the job not being    *)
(* there (not constructed yet, or no longer referred to by anything).      *)
Lifecycle ==
  { <<"none", "pending">>, <<"pending", "processing">>,
    <<"processing", "completed">>, <<"processing", "failed">>,
    <<"pending", "none">>, <<"completed", "none">>, <<"failed", "none">> }

(* Where a job's status stands relative to the worker's progress. *)
StatusInStep ==
  \A h \in Reqs :
    /\ hpc[h] = "send" => jobs[h].Status = "pending"
    /\ (wjob = h /\ wpc = "got") => jobs[h].Status = "pending"
    /\ (wjob = h /\ wpc \in {"exec", "ret", "panicked"}) => jobs[h].Status = "processing"
    /\ (wjob = h /\ wpc = "log") => jobs[h].Status \in Terminal
    /\ (wjob /= h /\ jobs[h].Status /= "none" /\ hpc[h] = "accepted")
         => jobs[h].Status \in Terminal
    /\ jobs[h].Status = "processing" => wjob = h

(* C10: a job's status moves only along pending -> processing ->           *)
(* (completed | failed): pending until the worker has dequeued it,         *)
(* processing before the executor runs, terminal only after the executor   *)
(* returned, and never changed once terminal.                              *)
C10_LinearLifecycle ==
  [][/\ \A h \in Reqs :
          jobs[h].Status /= jobs'[h].Status
            => <<jobs[h].Status, jobs'[h].Status>> \in Lifecycle
     /\ \A h \in Reqs :
          (jobs[h].Status \in Terminal /\ jobs'[h].Status /= "none")
            => jobs'[h] = jobs[h]
     /\ StatusInStep']_vars

C10_Witness ==
  \E h \in Reqs : jobs[h].Status = "failed" /\ hpc[h] = "accepted" /\ wjob /= h

(* C11: closing the queue is the only thing that ends the worker loop, and *)
(* it always does: the loop never ends while the queue is open, after the  *)
(* close the worker takes no further job, and the process does not exit    *)
(* while the worker is still in the middle of the job in hand.             *)
C11_OnlyCloseEndsWorker ==
  [][/\ wpc' \in {"stopped", "panicked"} => closed'
     /\ (closed /\ wjob' /= wjob) => wjob' = 0
     /\ mainPc' = "exited" => wpc' \notin MidJob]_vars

(* C12: a job is executed if and only if its submit was accepted: the      *)
(* worker only ever takes a job whose hand-off succeeded, a submit that    *)
(* ends with 400, 405 or 503 leaves the queue and the worker untouched,    *)
(* and no accepted job is left unexecuted when the process ends.           *)
Refused == {400, 405, 503}

C12_ExecutedIffAccepted ==
  [][/\ \A h \in Reqs :
          /\ (wjob' = h /\ wjob /= h) => hpc'[h] = "accepted"
          /\ (resp[h] = 0 /\ resp'[h] \in Refused) =>
               UNCHANGED <<closed, wpc, wjob, wout>>
     /\ (mainPc' = "exited" /\ wjob' /= 0) => wpc' \notin {"got", "exec"}]_vars

(***************************************************************************)
(* Which fields of a job each flow touches at each of its positions.       *)
(* The payload map is reached through the field Payload.                   *)
(***************************************************************************)
Fields == {"ID", "Type", "Payload", "CreatedAt", "Status"}

(* Before the select the handler fills the payload and NewJob sets every   *)
(* field; after it the handler writes nothing.                             *)
SubmitWrites(pc) == IF pc = "new" THEN Fields ELSE {}

(* A handler whose 202 body also reported the job's current status. *)
SubmitReadsWithStatus(pc) ==
  IF pc = "accepted" THEN {"ID", "Type", "Status"} ELSE {}

(* After a successful send: the log line and the 202 body. *)
SubmitReads(pc) == IF pc = "accepted" THEN {"ID", "Type"} ELSE {}

WorkerWrites(pc) == IF pc \in {"got", "ret"} THEN {"Status"} ELSE {}

WorkerReads(pc) ==
  CASE pc = "got" -> {"ID", "Type"}
    [] pc = "exec" -> {"Type", "Payload"}
    [] pc = "ret" -> {"ID"}
    [] pc = "log" -> {"ID"}
    [] OTHER -> {}

(* No field of job h is written by one flow while the other reads or       *)
(* writes it.                                                              *)
RaceFree(h) ==
  wjob = h =>
    /\ SubmitWrites(hpc[h]) \cap (WorkerReads(wpc) \cup WorkerWrites(wpc)) = {}
    /\ WorkerWrites(wpc) \cap (SubmitReads(hpc[h]) \cup SubmitWrites(hpc[h])) = {}

(* C13: after the hand-off the worker is the only writer of a job: every   *)
(* change to a job that exists is made by the worker holding it and        *)
(* changes only Status, and no field is written by one flow while the      *)
(* other flow reads or writes it; the submit flow's accesses after the     *)
(* hand-off touch only fields the worker never modifies.                   *)
C13_WorkerOnlyWriter ==
  [][\A h \in Reqs :
       /\ RaceFree(h)'
       /\ (jobs[h] /= NoJob /\ jobs'[h] /= NoJob /\ jobs'[h] /= jobs[h]) =>
            /\ wjob = h
            /\ "Status" \in WorkerWrites(wpc)
            /\ [jobs'[h] EXCEPT !.Status = jobs[h].Status] = jobs[h]]_vars

(* The worker is about to write the terminal status while the handler     *)
(* that handed the job over has not yet written its 202.                   *)
C13_Witness == \E h \in Reqs : wjob = h /\ hpc[h] = "accepted" /\ wpc = "ret"

(* Job a has been through the worker: it carries a terminal status, or it  *)
(* is gone because both its handler and the worker have let go of it.      *)
Finished(a) == jobs[a] = NoJob \/ jobs[a].Status \in Terminal

(* C14: jobs are processed in hand-off order: at the moment the hand-off   *)
(* of job b succeeds, and at the moment b becomes "processing", every job  *)
(* handed off before it has already reached a terminal status.             *)
C14_HandOffOrder ==
  [][\A b \in Reqs :
       \/ /\ hpc[b] = "send"
          /\ hpc'[b] = "accepted"
       \/ /\ jobs[b] /= NoJob
          /\ jobs[b].Status = "pending"
          /\ jobs'[b] /= NoJob
          /\ jobs'[b].Status = "processing"
       => \A a \in Reqs \ {b} : Received(a) => Finished(a)]_vars

(* A second job is being processed after an earlier one was handed off. *)
C14_Witness ==
  \E a, b \in Reqs :
     /\ a /= b
     /\ resp[a] = 202
     /\ wjob = b
     /\ jobs[b].Status = "processing"

(***************************************************************************)
(* The executors on their own.  The worker stands at the switch of         *)
(* processJob with a job the handler admitted and answered with 202; the   *)
(* payloads cover the costs and data_points around every threshold of the  *)
(* code, the numbers too large for an int included.                        *)
(***************************************************************************)
(* The clock readings of the first NewJob of a run on a steady clock. *)
FirstReadings == Readings(0, 1, 1)

MaxCostInput == 33
Tenths == {0, 5, 9}

CostInputs ==
  {Absent, Str("12"), Float(-1, -5), HugeFloat(1), HugeFloat(-1)}
    \cup {Float(w, t) : w \in -1..MaxCostInput, t \in Tenths}

DataPointInputs ==
  {Absent, Str("500"),
   Float(-1, 0), Float(0, 0), Float(0, 5), Float(3, 0), Float(3, 9),
   Float(DefaultDataPoints, 0),
   Float(MaxDataPoints - 1, 9), Float(MaxDataPoints, 0),
   Float(MaxDataPoints, 5), Float(MaxDataPoints + 1, 0),
   Float(2 * MaxDataPoints, 0), HugeFloat(1), HugeFloat(-1)}

ExecRequests ==
  {Post("password_hash", MakeMap(Str("abc123"), c, Absent)) : c \in CostInputs}
    \cup {Post("report_generation", MakeMap(Absent, Absent, d)) :
            d \in DataPointInputs}

InitExec ==
  /\ mainPc = "serving"
  /\ closed = FALSE
  /\ wpc = "exec"
  /\ wjob = 1
  /\ wout = NoOutcome
  /\ hpc = [h \in Reqs |-> IF h = 1 THEN "done" ELSE "new"]
  /\ resp = [h \in Reqs |-> IF h = 1 THEN 202 ELSE 0]
  /\ \E req \in ExecRequests :
        /\ Admit(req, FirstReadings).out = "job"
        /\ jobs = [h \in Reqs |->
                     IF h = 1
                       THEN [Admit(req, FirstReadings).job EXCEPT !.Status = "processing"]
                       ELSE NoJob]
  /\ seen = [h \in Reqs |-> "none"]
  /\ clock = FirstReadings.createdAt
  /\ dataset = <<>>
  /\ stats = NoStats

NextExec ==
  \/ ProcessJobExecute
  \/ ProcessJobEnd
  \/ ProcessJobReturn

SpecExec == InitExec /\ [][NextExec]_vars

(* The worker has just come out of the password executor, which hashed. *)
Hashed ==
  /\ wpc = "ret"
  /\ jobs[wjob].Type = "password_hash"
  /\ wout.err /= "invalid password field"

SuppliedCost == Lookup(jobs[wjob].Payload, "cost")

(* C15: the effective cost lies in [4, 31]; it is the default 10 when cost *)
(* is absent, non-numeric or any numeric value outside [4, 31], fractional *)
(* ones such as 3.9 or 31.5 included, and equals the supplied cost         *)
(* otherwise (for a fractional cost inside the range: its integer part).   *)
C15_CostDefaultsOutsideRange ==
  Hashed =>
    /\ wout.cost \in MinCost..MaxCost
    /\ IF SuppliedCost.kind /= "float"
            \/ SuppliedCost.s = "huge"
            \/ SuppliedCost.n < 10 * MinCost
            \/ SuppliedCost.n > 10 * MaxCost
         THEN wout.cost = DefaultCost
         ELSE /\ 10 * wout.cost <= SuppliedCost.n
              /\ SuppliedCost.n < 10 * (wout.cost + 1)

(* The worker has been through the report executor. *)
Reported ==
  /\ wpc \in {"ret", "panicked"}
  /\ jobs[wjob].Type = "report_generation"

RequestedPoints == Lookup(jobs[wjob].Payload, "data_points")

(* C16: the number of values generated is at most 10,000,000 (a larger     *)
(* request gives exactly 10,000,000), is 1,000,000 when data_points was    *)
(* absent from the request, the handler having filled in its default, and  *)
(* is the requested value (its integer part) otherwise.                    *)
C16_DataPointsGenerated ==
  Reported =>
    /\ ~wout.panic
    /\ wout.count <= MaxDataPoints
    /\ RequestedPoints.kind \in {"absent", "int"} => wout.count = 1000000
    /\ RequestedPoints.kind = "float" =>
         IF RequestedPoints.s = "huge" \/ RequestedPoints.n > 10 * MaxDataPoints
           THEN wout.count = MaxDataPoints
           ELSE /\ 10 * wout.count <= RequestedPoints.n
                /\ RequestedPoints.n < 10 * (wout.count + 1)

(***************************************************************************)
(* computeStatistics on its own.  The worker is inside                     *)
(* processReportGeneration with the dataset filled and the call to         *)
(* computeStatistics still to come.  The datasets are every sequence of up *)
(* to MaxLen of the DataValues, and two long ones in descending order.     *)
(***************************************************************************)
LongLengths == {20, 40}

Descending(n) == [i \in 1..n |-> n + 1 - i]

Datasets ==
  UNION {[1..len -> DataValues] : len \in 0..MaxLen}
    \cup {Descending(n) : n \in LongLengths}

InitStats ==
  /\ mainPc = "serving"
  /\ closed = FALSE
  /\ wpc = "exec"
  /\ wjob = 1
  /\ wout = NoOutcome
  /\ hpc = [h \in Reqs |-> IF h = 1 THEN "done" ELSE "new"]
  /\ resp = [h \in Reqs |-> IF h = 1 THEN 202 ELSE 0]
  /\ dataset \in Datasets
  /\ jobs = [h \in Reqs |->
               IF h = 1
                 THEN [NewJob("report_generation",
                              MakeMap(Absent, Absent, Float(Len(dataset), 0)),
                              FirstReadings)
                         EXCEPT !.Status = "processing"]
                 ELSE NoJob]
  /\ seen = [h \in Reqs |-> "none"]
  /\ clock = FirstReadings.createdAt
  /\ stats = NoStats

ComputeStatistics ==
  /\ stats = NoStats
  /\ dataset' = computeStatistics(dataset).data
  /\ stats' = computeStatistics(dataset).result
  /\ UNCHANGED pipeline
  /\ UNCHANGED clock

NextStats == ComputeStatistics

SpecStats == InitStats /\ [][NextStats]_vars

Percentiles == {25, 75, 95, 99}

PercentileOf(st, p) ==
  CASE p = 25 -> st.p25
    [] p = 75 -> st.p75
    [] p = 95 -> st.p95
    [] p = 99 -> st.p99

(* x is what stands at 0-based index k once s is in ascending order:      *)
(* at most k elements are smaller and more than k are not larger.          *)
AtSortedIndex(s, k, x) ==
  /\ Cardinality({i \in DOMAIN s : s[i] < x}) <= k
  /\ Cardinality({i \in DOMAIN s : s[i] <= x}) > k

(* C17: for a non-empty dataset of length n and p in {25, 75, 95, 99},     *)
(* computeStatistics returns the element at 0-based index floor(p*n/100)   *)
(* of the data in ascending order, that index lies in [0, n-1], and the    *)
(* caller's slice is left in its original order.                           *)
C17_PercentileIndex ==
  [][(stats = NoStats /\ stats' /= NoStats /\ Len(dataset) > 0) =>
       /\ dataset' = dataset
       /\ \A p \in Percentiles :
            LET k == (p * Len(dataset)) \div 100
            IN /\ k \in 0..(Len(dataset) - 1)
               /\ AtSortedIndex(dataset, k, PercentileOf(stats', p))]_vars

(* The statistics of 40, 39, .., 1: the four percentiles are four         *)
(* different elements and the slice is still in descending order.          *)
C17_Witness ==
  /\ Len(dataset) = 40
  /\ dataset[1] = 40
  /\ stats /= NoStats
  /\ stats.p25 = 11 /\ stats.p75 = 31 /\ stats.p95 = 39 /\ stats.p99 = 40

ComputedFields ==
  {"count", "sum", "mean", "std_dev", "variance", "min", "max", "median",
   "p25", "p75", "p95", "p99", "range"}

(* C18: for an empty dataset computeStatistics returns (it does not        *)
(* raise) a map that carries only the empty-dataset marker and none of     *)
(* the thirteen computed fields; for a non-empty one it returns all        *)
(* thirteen fields and no marker.                                          *)
C18_EmptyDatasetMarker ==
  stats /= NoStats =>
    IF Len(dataset) = 0
      THEN /\ DOMAIN stats = {"error"}
           /\ stats.error = "empty dataset"
      ELSE DOMAIN stats = ComputedFields

(* The call has returned for the empty dataset. *)
C18_Witness == dataset = <<>> /\ stats /= NoStats /\ "error" \in DOMAIN stats

(* One NewJob after another: the same valid submit arrives again and      *)
(* again.  The clock moves on by gap before the timestamp is taken and by  *)
(* tick between one reading and the next; it always moves, so no two       *)
(* readings are equal.                                                     *)
MaxGap == 6
MaxTick == 6

IdRequest == Post("password_hash", MakeMap(Str("abc123"), Absent, Absent))

NextIds ==
  \E h \in Reqs, gap \in 1..MaxGap, tick \in 1..MaxTick :
     HandleSubmitJob(h, IdRequest, gap, tick)

SpecIds == Init /\ [][NextIds]_vars

(* C19: the identifiers of sequential NewJob calls that fall within the    *)
(* same wall-clock second are pairwise distinct, whatever the clock        *)
(* readings are.                                                           *)
C19_IdsDistinct ==
  \A g, h \in Reqs :
     (g /= h /\ jobs[g] /= NoJob /\ jobs[h] /= NoJob) => jobs[g].ID /= jobs[h].ID

(* C20: no submit flow ever attempts the hand-off on a closed queue: the   *)
(* outcome "send attempted on a closed queue" is unreachable, although     *)
(* the HTTP server keeps accepting submits during the grace period.        *)
C20_NoSendOnClosedQueue ==
  \A h \in Reqs :
     /\ hpc[h] /= "panic_closed"
     /\ (closed /\ Alive) => ~ENABLED TrySend(h)
====
